---- MODULE Spec2Model ----
(***************************************************************************)
(* msit-dl (src/msit_dl.py): scan the listing pages of a press-release     *)
(* board, fetch every article's detail page, and download the hwp / hwpx / *)
(* odt attachments into an output directory.                               *)
(*                                                                         *)
(* Strings are sequences of one-character strings, so that the character   *)
(* classes of the two regular expressions (\d+, \w+), the comparison of    *)
(* extensions and the lexicographic order of sorted() are computed, not    *)
(* assumed.  A page's markup is a sequence of tokens; a token is a piece   *)
(* of text shaped like a JavaScript call (a function name and its          *)
(* arguments, each quoted or not) or anything else.  A list that the code   *)
(* fills in the iteration order of a set, and reads only through len(),    *)
(* set() and sorted(), is a bag: its elements with their multiplicities.   *)
(***************************************************************************)
EXTENDS Integers, Sequences, FiniteSets, Bags, TLC

\* ------------------------------------------------------------ bounds
\* args.pages: the number of listing pages scanned
NumPages == 2
\* tokens in one listing page's markup (Spec)
MaxListLen == 2
\* tokens in one detail page's markup (Spec)
MaxDetailLen == 2
\* files present in the output directory when a run starts
MaxPreExisting == 1
\* tokens in a markup handed to the extractors alone (SpecExtract)
MaxMarkupLen == 3
\* tokens in one listing page's markup (SpecTwice)
TwiceListLen == 1
\* tokens in one detail page's markup (SpecTwice)
TwiceDetailLen == 2

\* ------------------------------------------------------------ strings
Range(s) == {s[j] : j \in DOMAIN s}

SeqsUpTo(S, n) == UNION {[1..m -> S] : m \in 0..n}

DigitChars == {"0", "1", "2", "3", "4", "5", "6", "7", "8", "9"}

LetterChars == {"h", "w", "p", "x", "o", "d", "t", "f", "_"}

\* \d+ : one or more digits
IsDigits(s) == Len(s) > 0 /\ \A j \in DOMAIN s : s[j] \in DigitChars

\* \w+ : one or more word characters
IsWord(s) == Len(s) > 0 /\ \A j \in DOMAIN s : s[j] \in DigitChars \cup LetterChars

\* code point order of the digits, all that sorted() compares here
CharCode(c) ==
    CASE c = "0" -> 48 [] c = "1" -> 49 [] c = "2" -> 50 [] c = "3" -> 51
      [] c = "4" -> 52 [] c = "5" -> 53 [] c = "6" -> 54 [] c = "7" -> 55
      [] c = "8" -> 56 [] c = "9" -> 57 [] OTHER -> 95

\* Python's str.__lt__: lexicographic by code point, a proper prefix first
StrLess(a, b) ==
    \/ \E j \in 1..Len(a) :
          /\ j <= Len(b)
          /\ \A m \in 1..(j - 1) : a[m] = b[m]
          /\ CharCode(a[j]) < CharCode(b[j])
    \/ /\ Len(a) < Len(b)
       /\ \A m \in 1..Len(a) : a[m] = b[m]

\* list(seq) as a bag
RECURSIVE ListBag(_)
ListBag(q) == IF q = <<>> THEN EmptyBag ELSE SetToBag({Head(q)}) (+) ListBag(Tail(q))

\* list(set(b)): every element once
ListOfSet(b) == SetToBag(BagToSet(b))

\* sorted(b) for a list of strings: every element as often as the list holds
\* it, none before a smaller one
Sorted(b) ==
    LET S == BagToSet(b)
        n == BagCardinality(b)
    IN CHOOSE q \in [1..n -> S] :
          /\ \A x, y \in 1..n : x < y => ~StrLess(q[y], q[x])
          /\ \A e \in S : Cardinality({x \in 1..n : q[x] = e}) = CopiesIn(e, b)

\* ------------------------------------------------------------ markup
Arg(quoted, text) == [q |-> quoted, s |-> text]

Call(name, arguments) == [fn |-> name, args |-> arguments]

OtherText == Call("text", <<>>)

\* fn_detail\((\d+)\)
MatchesDetail(t) ==
    /\ t.fn = "fn_detail"
    /\ Len(t.args) = 1
    /\ ~t.args[1].q
    /\ IsDigits(t.args[1].s)

\* fn_download\('(\d+)',\s*'(\d+)',\s*'(\w+)'\)
MatchesDownload(t) ==
    /\ t.fn = "fn_download"
    /\ Len(t.args) = 3
    /\ \A j \in 1..3 : t.args[j].q
    /\ IsDigits(t.args[1].s)
    /\ IsDigits(t.args[2].s)
    /\ IsWord(t.args[3].s)

\* re.findall(pattern, html) with one group: the groups, in markup order
RECURSIVE FindAllDetail(_)
FindAllDetail(html) ==
    IF html = <<>> THEN <<>>
    ELSE LET rest == FindAllDetail(Tail(html))
         IN IF MatchesDetail(Head(html))
            THEN <<Head(html).args[1].s>> \o rest
            ELSE rest

\* re.findall(pattern, html) with three groups: the triples, in markup order
RECURSIVE FindAllDownload(_)
FindAllDownload(html) ==
    IF html = <<>> THEN <<>>
    ELSE LET rest == FindAllDownload(Tail(html))
             t == Head(html)
         IN IF MatchesDownload(t)
            THEN <<<<t.args[1].s, t.args[2].s, t.args[3].s>>>> \o rest
            ELSE rest

\* get_article_ids without its fetch
ArticleIds(markup) == ListOfSet(ListBag(FindAllDetail(markup)))

\* the loop of get_file_info without its test of seen
RECURSIVE DedupFilesKeepsAll(_, _, _)
DedupFilesKeepsAll(matches, seen, files) ==
    IF matches = <<>> THEN files
    ELSE LET key == Head(matches)
         IN DedupFilesKeepsAll(Tail(matches), seen \cup {key},
                               Append(files, [atchFileNo |-> key[1], fileOrd |-> key[2], ext |-> key[3]]))

\* the loop of get_file_info over the matches: seen and files
RECURSIVE DedupFiles(_, _, _)
DedupFiles(matches, seen, files) ==
    IF matches = <<>> THEN files
    ELSE LET key == Head(matches)
         IN IF key \notin seen
            THEN DedupFiles(Tail(matches), seen \cup {key},
                            Append(files, [atchFileNo |-> key[1], fileOrd |-> key[2], ext |-> key[3]]))
            ELSE DedupFiles(Tail(matches), seen, files)

\* get_file_info without its fetch
FileInfo(html) == DedupFiles(FindAllDownload(html), {}, <<>>)

\* ------------------------------------------------------------ constants
S_hwp == <<"h", "w", "p">>

S_hwpx == <<"h", "w", "p", "x">>

S_odt == <<"o", "d", "t">>

S_pdf == <<"p", "d", "f">>

\* the tuple of line 153
AcceptedExts == {S_hwp, S_hwpx, S_odt}

\* --outdir, its default
OutDir == <<"msit-docs">>

DOWNLOAD_URL == <<"https://www.msit.go.kr/ssm/file/fileDown.do">>

\* str.format of a non-negative integer
RECURSIVE IntToStr(_)
IntToStr(n) ==
    LET digit == CHOOSE c \in DigitChars : CharCode(c) = 48 + (n % 10)
    IN IF n < 10 THEN <<digit>> ELSE Append(IntToStr(n \div 10), digit)

LIST_URL(p) == <<"https://www.msit.go.kr/bbs/list.do?sCode=user&mId=310&mPid=121&bbsSeqNo=96&pageIndex=">> \o IntToStr(p)

VIEW_URL(ntt) == <<"https://www.msit.go.kr/bbs/view.do?sCode=user&mId=310&mPid=121&bbsSeqNo=96&nttSeqNo=">> \o ntt

\* the size a download must exceed
MinSize == 100

\* --delay in milliseconds, its default
Delay == 1000

\* line 170 without its factor
HalfDelayWhole == Delay

\* args.delay * 0.5
HalfDelay == (Delay * 5) \div 10

\* no file: the size of what is not there
NoFile == -1

\* no value yet
None == [none |-> TRUE]

\* the form with its two values exchanged
FormBodySwapped(atch_file_no, file_ord) ==
    <<"atchFileNo=">> \o file_ord \o <<"&fileOrd=">> \o atch_file_no \o <<"&fileBtn=A">>

\* f"atchFileNo={atch_file_no}&fileOrd={file_ord}&fileBtn=A"
FormBody(atch_file_no, file_ord) ==
    <<"atchFileNo=">> \o atch_file_no \o <<"&fileOrd=">> \o file_ord \o <<"&fileBtn=A">>

\* os.path.join(args.outdir, f"msit-{ntt_id}.{ext}")
OutPath(outdir, ntt_id, ext) ==
    outdir \o <<"/">> \o <<"msit-">> \o ntt_id \o <<".">> \o ext

GetRequest(url) == [method |-> "GET", url |-> url]

\* the curl command line of curl_download
PostRequest(atch_file_no, file_ord, outpath) ==
    [method |-> "POST", url |-> DOWNLOAD_URL, data |-> FormBody(atch_file_no, file_ord), out |-> outpath]

\* ------------------------------------------------------------ the remote host and the transport
ArticleIdPool == {<<"7">>, <<"1", "0">>}

ListTokens ==
    {Call("fn_detail", <<Arg(FALSE, id)>>) : id \in ArticleIdPool}
        \cup {Call("fn_detail", <<Arg(TRUE, <<"7">>)>>)}

Download(atch, ord, ext) == Call("fn_download", <<Arg(TRUE, atch), Arg(TRUE, ord), Arg(TRUE, ext)>>)

DetailTokens ==
    { Download(<<"5", "5">>, <<"1">>, S_hwp),
      Download(<<"5", "6">>, <<"1">>, S_hwp),
      Download(<<"5", "5">>, <<"2">>, S_hwpx),
      Download(<<"5", "5">>, <<"1">>, S_pdf),
      Call("fn_download", <<Arg(FALSE, <<"5", "5">>), Arg(TRUE, <<"1">>), Arg(TRUE, S_hwp)>>) }

\* what curl_get can come back with: the decoded stdout (whatever curl's
\* return code, which curl_get never reads), or subprocess.TimeoutExpired
GetOutcomes(tokens, n) ==
    {[kind |-> "html", html |-> h] : h \in SeqsUpTo(tokens, n)} \cup {[kind |-> "timeout"]}

\* the answers to a listing fetch
ListOutcomes == GetOutcomes(ListTokens, MaxListLen)

\* the answers to a detail fetch
DetailOutcomes == GetOutcomes(DetailTokens, MaxDetailLen)

FileSizes == {50, 100, 500}

\* what the curl of curl_download can do: exit with a return code having
\* written the -o file or not, or run into the timeout of subprocess.run
\* having written part of it or not
PostOutcomes ==
    {[kind |-> "exit", rc |-> 0, wrote |-> w] : w \in FileSizes \cup {NoFile}}
        \cup {[kind |-> "exit", rc |-> 7, wrote |-> w] : w \in {NoFile, 500}}
        \cup {[kind |-> "timeout", wrote |-> w] : w \in {NoFile, 50, 500}}

\* the paths of the files a run can find in its output directory: those it
\* can come to name for the article listed as 7
Paths ==
    {OutPath(OutDir, id, t.args[3].s) :
        id \in {<<"7">>},
        t \in {u \in DetailTokens : MatchesDownload(u) /\ u.args[3].s \in AcceptedExts}}

\* their sizes
StartSizes == {50, 500}

\* the output directories a run can start with: the files there, with their sizes
StartDirs ==
    UNION {[P -> StartSizes] : P \in {Q \in SUBSET Paths : Cardinality(Q) <= MaxPreExisting}}

\* an empty directory
EmptyDir == <<>>

\* ------------------------------------------------------------ state
VARIABLES
    pc,               \* where main is
    page,             \* the loop variable of line 117
    all_article_ids,  \* the list of line 116
    i,                \* the index of the article loop in sorted(all_article_ids), from 1
    files,            \* the files of the current article
    k,                \* the index of the files loop, from 1
    downloaded,       \* the tally of line 130, None before
    fs,               \* the output directory: the size of each file in it, by path
    pending,          \* the requests sent since the last time.sleep returned
    last_sleep,       \* the duration of the last time.sleep, 0 before the first
    fs0,              \* the output directory when the run started
    matched,          \* the identifiers matched on the page just fetched, None if the fetch raised
    listed,           \* the identifiers matched on the pages whose fetch returned
    repeated,         \* one of them was matched again, on the same page or on a later one
    fetched,          \* the articles whose detail page was requested, in order
    offered,          \* the triples matched on the current article's detail page
    succeeded,        \* downloads that left their file in place, by extension
    skipped,          \* "already exists" skips, by extension
    dl,               \* the call of curl_download main is at: its arguments and what came of it
    run,              \* SpecTwice: the first run of main or the second
    remote,           \* SpecTwice: what each request was answered with
    first,            \* SpecTwice: what the first run left, None during it
    xpc,              \* SpecExtract: what has been applied
    html,             \* SpecExtract: the markup
    out_ids,          \* SpecExtract: what get_article_ids returned
    out_files         \* SpecExtract: what get_file_info returned

prog == <<pc, page, all_article_ids, i, files, k, downloaded, fs>>

obs == <<pending, last_sleep, fs0, matched, listed, repeated, fetched, offered, succeeded, skipped, dl>>

again == <<run, remote, first>>

pure == <<xpc, html, out_ids, out_files>>

vars == <<prog, obs, again, pure>>

ZeroTally == [e \in AcceptedExts |-> 0]

\* downloaded[ext] += 1
Bump(tally, e) == [tally EXCEPT ![e] = @ + 1]

\* sorted(all_article_ids) of line 132
SortedIds == Sorted(all_article_ids)

ntt_id == SortedIds[i]

finfo == files[k]

outpath == OutPath(OutDir, ntt_id, finfo.ext)

\* os.path.exists
Exists(dir, path) == path \in DOMAIN dir

\* os.path.getsize, NoFile where the code would not ask
SizeOf(dir, path) == IF Exists(dir, path) THEN dir[path] ELSE NoFile

\* the directory with a file of this size at path
WriteFile(dir, path, size) == [p \in DOMAIN dir \cup {path} |-> IF p = path THEN size ELSE dir[p]]

\* os.remove
Remove(dir, path) == [p \in DOMAIN dir \ {path} |-> dir[p]]

\* line 153 without its test
WantedAlways == TRUE

\* line 153
Wanted == finfo.ext \in AcceptedExts

\* line 157 without its test
AlreadyExistsNever == FALSE

\* line 157
AlreadyExists == Exists(fs, outpath)

\* the file system once curl has run: -o replaces the file if anything was written
AfterCurl(dir, path, outcome) ==
    IF outcome.wrote = NoFile THEN dir ELSE WriteFile(dir, path, outcome.wrote)

\* lines 54-60 of curl_download, for a curl that exited: <<return value, file system>>
CurlDownloadReturn(dir, path, outcome) ==
    LET wr == AfterCurl(dir, path, outcome)
    IN IF outcome.rc = 0 /\ Exists(wr, path) /\ wr[path] > MinSize
       THEN <<wr[path], wr>>
       ELSE <<0, IF Exists(wr, path) THEN Remove(wr, path) ELSE wr>>

\* lines 164-168 counting a failed download too
TallyAfterAlways(tally, e, size) == Bump(tally, e)

\* lines 164-168: the tally once curl_download has returned size
TallyAfter(tally, e, size) == IF size # 0 THEN Bump(tally, e) ELSE tally

\* line 159 left out
TallyAfterSkipForgets(tally, e) == tally

\* line 159: the tally once a file is found in place
TallyAfterSkip(tally, e) == Bump(tally, e)

PureIdle ==
    /\ xpc = {}
    /\ html = <<>>
    /\ out_ids = EmptyBag
    /\ out_files = <<>>

\* main at line 116
Start ==
    /\ pc = "scan"
    /\ page = 1
    /\ all_article_ids = EmptyBag
    /\ i = 0
    /\ files = <<>>
    /\ k = 0
    /\ downloaded = None
    /\ pending = <<>>
    /\ last_sleep = 0
    /\ matched = None
    /\ listed = {}
    /\ repeated = FALSE
    /\ fetched = <<>>
    /\ offered = {}
    /\ succeeded = ZeroTally
    /\ skipped = ZeroTally
    /\ dl = None

\* one run of main, in an output directory that may hold files
Init ==
    /\ Start
    /\ fs \in StartDirs
    /\ fs0 = fs
    /\ run = 1
    /\ remote = [list |-> {}, view |-> {}, post |-> {}]
    /\ first = None
    /\ PureIdle

\* time.sleep(d)
Sleep(d) ==
    /\ last_sleep' = d
    /\ pending' = <<>>

\* lines 118-124: one listing page, the fetch answered with resp
ScanPage(resp) ==
    /\ pc = "scan"
    /\ page <= NumPages
    /\ IF resp.kind = "html"
       THEN /\ all_article_ids' = all_article_ids (+) ArticleIds(resp.html)
            /\ matched' = [ids |-> {t.args[1].s : t \in {u \in Range(resp.html) : MatchesDetail(u)}}]
            /\ listed' = listed \cup matched'.ids
            /\ repeated' = (\/ repeated
                            \/ Len(FindAllDetail(resp.html)) > Cardinality(matched'.ids)
                            \/ matched'.ids \cap listed # {})
       ELSE /\ matched' = None
            /\ UNCHANGED <<all_article_ids, listed, repeated>>
    /\ pending' = Append(pending, GetRequest(LIST_URL(page)))
    /\ pc' = "scan_sleep"
    /\ UNCHANGED <<page, i, files, k, downloaded, fs>>
    /\ UNCHANGED <<last_sleep, fs0, fetched, offered, succeeded, skipped, dl>>
    /\ UNCHANGED pure

\* line 125, and the next turn of the loop of line 117
ScanSleep ==
    /\ pc = "scan_sleep"
    /\ Sleep(Delay)
    /\ page' = page + 1
    /\ pc' = "scan"
    /\ matched' = None
    /\ UNCHANGED <<all_article_ids, i, files, k, downloaded, fs>>
    /\ UNCHANGED <<fs0, listed, repeated, fetched, offered, succeeded, skipped, dl>>
    /\ UNCHANGED again
    /\ UNCHANGED pure

\* lines 127-132: the set of the identifiers, the tally, the first article
Collect ==
    /\ pc = "scan"
    /\ page > NumPages
    /\ all_article_ids' = ListOfSet(all_article_ids)
    /\ downloaded' = ZeroTally
    /\ i' = 1
    /\ pc' = "article"
    /\ UNCHANGED <<page, files, k, fs>>
    /\ UNCHANGED obs
    /\ UNCHANGED again
    /\ UNCHANGED pure

\* lines 133-149: the detail page of one article, the fetch answered with resp
FetchDetail(resp) ==
    /\ pc = "article"
    /\ i <= Len(SortedIds)
    /\ IF resp.kind = "html"
       THEN /\ files' = FileInfo(resp.html)
            /\ offered' = {<<t.args[1].s, t.args[2].s, t.args[3].s>> :
                              t \in {u \in Range(resp.html) : MatchesDownload(u)}}
            /\ IF files' = <<>>
               THEN pc' = "sleep_nofiles" /\ k' = k
               ELSE pc' = "files" /\ k' = 1
       ELSE /\ pc' = "sleep_error"
            /\ offered' = {}
            /\ UNCHANGED <<files, k>>
    /\ pending' = Append(pending, GetRequest(VIEW_URL(ntt_id)))
    /\ fetched' = Append(fetched, ntt_id)
    /\ UNCHANGED <<page, all_article_ids, i, downloaded, fs>>
    /\ UNCHANGED <<last_sleep, fs0, matched, listed, repeated, succeeded, skipped, dl>>
    /\ UNCHANGED pure

\* a time.sleep(args.delay) of the article loop, and the loop's next turn
NextArticle ==
    /\ Sleep(Delay)
    /\ i' = i + 1
    /\ pc' = "article"
    /\ UNCHANGED <<page, all_article_ids, files, k, downloaded, fs>>
    /\ UNCHANGED <<fs0, matched, listed, repeated, fetched, offered, succeeded, skipped, dl>>
    /\ UNCHANGED again
    /\ UNCHANGED pure

\* lines 138-141: the detail fetch raised
SleepError == pc = "sleep_error" /\ NextArticle

\* lines 143-146: no attachment matched
SleepNoFiles == pc = "sleep_nofiles" /\ NextArticle

\* line 172: the article's files are done
SleepArticle == pc = "sleep_article" /\ NextArticle

\* the next turn of the loop of line 151, or its end
NextFile ==
    IF k < Len(files)
    THEN k' = k + 1 /\ pc' = "files"
    ELSE k' = k /\ pc' = "sleep_article"

\* lines 152-154: an extension that is not wanted
SkipExtension ==
    /\ pc = "files"
    /\ ~Wanted
    /\ NextFile
    /\ UNCHANGED <<page, all_article_ids, i, files, downloaded, fs>>
    /\ UNCHANGED obs
    /\ UNCHANGED again
    /\ UNCHANGED pure

\* lines 156-160: the target is there already
SkipExisting ==
    /\ pc = "files"
    /\ Wanted
    /\ AlreadyExists
    /\ downloaded' = TallyAfterSkip(downloaded, finfo.ext)
    /\ skipped' = [skipped EXCEPT ![finfo.ext] = @ + 1]
    /\ NextFile
    /\ UNCHANGED <<page, all_article_ids, i, files, fs>>
    /\ UNCHANGED <<pending, last_sleep, fs0, matched, listed, repeated, fetched, offered, succeeded, dl>>
    /\ UNCHANGED again
    /\ UNCHANGED pure

\* lines 162-168 with curl_download (lines 37-60), curl ending as outcome says
DownloadFile(outcome) ==
    /\ pc = "files"
    /\ Wanted
    /\ ~AlreadyExists
    /\ pending' = Append(pending, PostRequest(finfo.atchFileNo, finfo.fileOrd, outpath))
    /\ IF outcome.kind = "exit"
       THEN LET r == CurlDownloadReturn(fs, outpath, outcome)
                size == r[1]
            IN /\ fs' = r[2]
               /\ dl' = [out |-> outpath, outcome |-> outcome, had |-> SizeOf(fs, outpath),
                         raised |-> FALSE, ret |-> size, left |-> SizeOf(r[2], outpath)]
               /\ downloaded' = TallyAfter(downloaded, finfo.ext, size)
               /\ pc' = "sleep_download"
       ELSE \* subprocess.TimeoutExpired leaves curl_download at line 39 and main at line 163
            /\ fs' = AfterCurl(fs, outpath, outcome)
            /\ dl' = [out |-> outpath, outcome |-> outcome, had |-> SizeOf(fs, outpath),
                      raised |-> TRUE, ret |-> 0, left |-> SizeOf(fs', outpath)]
            /\ pc' = "aborted"
            /\ UNCHANGED downloaded
    /\ succeeded' = IF outcome.kind = "exit" /\ outpath \in DOMAIN fs'
                    THEN [succeeded EXCEPT ![finfo.ext] = @ + 1]
                    ELSE succeeded
    /\ UNCHANGED <<page, all_article_ids, i, files, k>>
    /\ UNCHANGED <<last_sleep, fs0, matched, listed, repeated, fetched, offered, skipped>>
    /\ UNCHANGED pure

\* line 170, and the next turn of the loop of line 151
SleepDownload ==
    /\ pc = "sleep_download"
    /\ Sleep(HalfDelay)
    /\ NextFile
    /\ dl' = None
    /\ UNCHANGED <<page, all_article_ids, i, files, downloaded, fs>>
    /\ UNCHANGED <<fs0, matched, listed, repeated, fetched, offered, succeeded, skipped>>
    /\ UNCHANGED again
    /\ UNCHANGED pure

\* lines 174-178: the summary
Summary ==
    /\ pc = "article"
    /\ i > Len(SortedIds)
    /\ pc' = "done"
    /\ UNCHANGED <<page, all_article_ids, i, files, k, downloaded, fs>>
    /\ UNCHANGED obs
    /\ UNCHANGED again
    /\ UNCHANGED pure

\* a listing fetch, answered in any way
AnyScanPage ==
    \E resp \in ListOutcomes : ScanPage(resp) /\ UNCHANGED again

\* a detail fetch, answered in any way
AnyFetchDetail ==
    \E resp \in DetailOutcomes : FetchDetail(resp) /\ UNCHANGED again

\* a download, ending in any way
AnyDownloadFile ==
    \E outcome \in PostOutcomes : DownloadFile(outcome) /\ UNCHANGED again

Next ==
    \/ AnyScanPage
    \/ ScanSleep
    \/ Collect
    \/ AnyFetchDetail
    \/ SleepError
    \/ SleepNoFiles
    \/ SkipExtension
    \/ SkipExisting
    \/ AnyDownloadFile
    \/ SleepDownload
    \/ SleepArticle
    \/ Summary

\* one run of main against any remote host
Spec == Init /\ [][Next]_vars

\* ------------------------------------------------------------ two runs against one remote state
\* the remote host lists one article, on any of its pages, any number of times
TwiceListTokens == {Call("fn_detail", <<Arg(FALSE, <<"7">>)>>)}

TwiceDetailTokens ==
    { Download(<<"5", "5">>, <<"1">>, S_hwp),
      Download(<<"5", "6">>, <<"1">>, S_hwp),
      Download(<<"5", "5">>, <<"1">>, S_pdf) }

TwiceListOutcomes == GetOutcomes(TwiceListTokens, TwiceListLen)

TwiceDetailOutcomes == GetOutcomes(TwiceDetailTokens, TwiceDetailLen)

TwicePostOutcomes ==
    { [kind |-> "exit", rc |-> 0, wrote |-> 500],
      [kind |-> "exit", rc |-> 0, wrote |-> 50],
      [kind |-> "exit", rc |-> 7, wrote |-> NoFile],
      [kind |-> "timeout", wrote |-> 50],
      [kind |-> "timeout", wrote |-> NoFile] }

\* the remote state answers a request as it answered it before
Replay(kind, req, resp) ==
    /\ \A a \in remote[kind] : a[1] = req => a[2] = resp
    /\ remote' = [remote EXCEPT ![kind] = @ \cup {<<req, resp>>}]
    /\ UNCHANGED <<run, first>>

TwiceScanPage ==
    \E resp \in TwiceListOutcomes :
        ScanPage(resp) /\ Replay("list", GetRequest(LIST_URL(page)), resp)

TwiceFetchDetail ==
    \E resp \in TwiceDetailOutcomes :
        FetchDetail(resp) /\ Replay("view", GetRequest(VIEW_URL(ntt_id)), resp)

TwiceDownloadFile ==
    \E outcome \in TwicePostOutcomes :
        DownloadFile(outcome)
            /\ Replay("post", PostRequest(finfo.atchFileNo, finfo.fileOrd, outpath), outcome)

\* the files the run has downloaded: those it left that it did not find, but
\* for the part of a file that a timed-out curl left behind
Downloaded ==
    {p \in DOMAIN fs \ DOMAIN fs0 : ~(pc = "aborted" /\ dl.out = p)}

\* main is started again in the same output directory
RunAgain ==
    /\ run = 1
    /\ pc \in {"done", "aborted"}
    /\ run' = 2
    /\ first' = [tally |-> downloaded, got |-> Downloaded, fs |-> fs]
    /\ pc' = "scan"
    /\ page' = 1
    /\ all_article_ids' = EmptyBag
    /\ i' = 0
    /\ files' = <<>>
    /\ k' = 0
    /\ downloaded' = None
    /\ pending' = <<>>
    /\ last_sleep' = 0
    /\ matched' = None
    /\ listed' = {}
    /\ repeated' = FALSE
    /\ fetched' = <<>>
    /\ offered' = {}
    /\ succeeded' = ZeroTally
    /\ skipped' = ZeroTally
    /\ dl' = None
    /\ fs0' = fs
    /\ UNCHANGED <<fs, remote>>
    /\ UNCHANGED pure

NextTwice ==
    \/ TwiceScanPage
    \/ ScanSleep
    \/ Collect
    \/ TwiceFetchDetail
    \/ SleepError
    \/ SleepNoFiles
    \/ SkipExtension
    \/ SkipExisting
    \/ TwiceDownloadFile
    \/ SleepDownload
    \/ SleepArticle
    \/ Summary
    \/ RunAgain

\* the first run starts in an empty output directory; the second finds what
\* the first left, the part of a file that a timed-out curl wrote included
InitTwice ==
    /\ Start
    /\ fs = EmptyDir
    /\ fs0 = fs
    /\ run = 1
    /\ remote = [list |-> {}, view |-> {}, post |-> {}]
    /\ first = None
    /\ PureIdle

\* main run twice in a row, the remote state and the output directory the same
SpecTwice == InitTwice /\ [][NextTwice]_vars

\* ------------------------------------------------------------ the extractors alone
\* the tokens of both kinds of page, and some that come close to a match: an
\* extension with a character that is no word character, a call short of an
\* argument, other text
ExtractTokens ==
    ListTokens \cup DetailTokens
        \cup { Download(<<"5", "5">>, <<"1">>, <<"h", "-", "p">>),
               Call("fn_download", <<Arg(TRUE, <<"5", "5">>), Arg(TRUE, <<"1">>)>>),
               OtherText }

InitExtract ==
    /\ Start
    /\ fs = EmptyDir
    /\ fs0 = fs
    /\ run = 1
    /\ remote = [list |-> {}, view |-> {}, post |-> {}]
    /\ first = None
    /\ xpc = {}
    /\ html \in SeqsUpTo(ExtractTokens, MaxMarkupLen)
    /\ out_ids = EmptyBag
    /\ out_files = <<>>

\* lines 67-68 on the markup
GetArticleIds ==
    /\ "get_article_ids" \notin xpc
    /\ out_ids' = ArticleIds(html)
    /\ xpc' = xpc \cup {"get_article_ids"}
    /\ UNCHANGED <<html, out_files>>
    /\ UNCHANGED <<prog, obs, again>>

\* lines 75-84 on the markup
GetFileInfo ==
    /\ "get_file_info" \notin xpc
    /\ out_files' = FileInfo(html)
    /\ xpc' = xpc \cup {"get_file_info"}
    /\ UNCHANGED <<html, out_ids>>
    /\ UNCHANGED <<prog, obs, again>>

NextExtract ==
    \/ GetArticleIds
    \/ GetFileInfo

\* the two extractors on any markup
SpecExtract == InitExtract /\ [][NextExtract]_vars

\* ------------------------------------------------------------ properties
Last(q) == q[Len(q)]

NoDuplicates(q) == \A a, b \in DOMAIN q : q[a] = q[b] => a = b

IsPost(r) == r.method = "POST"

\* the call of curl_download main is at was good: curl exited with 0 and
\* wrote more than 100 bytes
GoodDownload == dl.outcome.kind = "exit" /\ dl.outcome.rc = 0 /\ dl.outcome.wrote > 100

\* C1: every call of curl_download returns the size and leaves the file if
\* curl exited with 0 and wrote more than 100 bytes, and else reports 0 and
\* leaves no file at the target path.
C1_DownloadValidity ==
    dl # None =>
        /\ ~dl.raised
        /\ IF GoodDownload
           THEN dl.ret = dl.outcome.wrote /\ dl.left = dl.outcome.wrote
           ELSE dl.ret = 0 /\ dl.left = NoFile

\* C1, where it goes wrong: curl ran into the timeout with part of the file written
C1_TimedOutLeavingFile == dl # None /\ dl.raised /\ dl.left = 50

\* the paths the first run downloaded whose extension is e
GotWith(e) == {p \in first.got : \E id \in ArticleIdPool : p = OutPath(OutDir, id, e)}

\* C2: the second of two runs against the same remote state sends no download
\* for a file the first run downloaded, leaves those files as they are, and
\* ends with a tally that counts each of them and is not below the first run's.
C2_SecondRunIdempotent ==
    run = 2 =>
        /\ \A j \in DOMAIN pending : IsPost(pending[j]) => pending[j].out \notin first.got
        /\ \A p \in first.got : p \in DOMAIN fs /\ fs[p] = first.fs[p]
        /\ pc \in {"done", "aborted"} =>
              \A e \in {S_hwp, S_hwpx, S_odt} :
                  /\ downloaded[e] >= first.tally[e]
                  /\ downloaded[e] >= Cardinality(GotWith(e))
                  /\ skipped[e] >= Cardinality(GotWith(e))

\* C2, its case: the second run is through, having skipped a file that the
\* first run downloaded
C2_SecondRunSkipped ==
    /\ run = 2
    /\ pc = "done"
    /\ GotWith(S_hwp) # {}
    /\ downloaded[S_hwp] > 0
    /\ first.tally[S_hwp] > 0

\* C3: a descriptor whose extension is not hwp, hwpx or odt changes neither
\* the requests sent, nor the output directory, nor the tally; every download
\* sent is that of a descriptor with one of the three extensions.
C3_ExtensionFilter ==
    /\ [](\A j \in DOMAIN pending : IsPost(pending[j]) =>
              /\ files[k].ext \in {S_hwp, S_hwpx, S_odt}
              /\ pending[j].data = <<"atchFileNo=">> \o files[k].atchFileNo
                                       \o <<"&fileOrd=">> \o files[k].fileOrd \o <<"&fileBtn=A">>)
    /\ [][(pc = "files" /\ files[k].ext \notin {S_hwp, S_hwpx, S_odt}) =>
              (pending' = pending /\ fs' = fs /\ downloaded' = downloaded /\ dl' = dl)]_vars

\* C3, its case: a pdf descriptor has been passed over
C3_PdfPassedOver ==
    /\ pc = "sleep_article"
    /\ \E j \in DOMAIN files : files[j].ext = S_pdf
    /\ DOMAIN fs = DOMAIN fs0

\* C5: every download sent is the form of one accepted descriptor matched on
\* the detail page of the article at hand, to the download endpoint, written
\* to msit-<that article>.<that descriptor's extension> in the output directory.
C5_RequestMatchesFile ==
    \A j \in DOMAIN pending : IsPost(pending[j]) =>
        \E t \in offered :
            /\ t[3] \in {S_hwp, S_hwpx, S_odt}
            /\ pending[j].url = <<"https://www.msit.go.kr/ssm/file/fileDown.do">>
            /\ pending[j].data = <<"atchFileNo=">> \o t[1] \o <<"&fileOrd=">> \o t[2] \o <<"&fileBtn=A">>
            /\ pending[j].out = <<"msit-docs", "/", "msit-">> \o Last(fetched) \o <<".">> \o t[3]

\* C5, its case: article 7 offers fn_download('55','1','hwp') and the download is sent
C5_DownloadSent ==
    /\ dl # None
    /\ Last(fetched) = <<"7">>
    /\ Last(pending).data = <<"atchFileNo=", "5", "5", "&fileOrd=", "1", "&fileBtn=A">>
    /\ Last(pending).out = <<"msit-docs", "/", "msit-", "7", ".", "h", "w", "p">>
    /\ dl.ret = 500

\* C6: a listing page adds each identifier matched on it once; no article's
\* detail page is requested twice, none that was not listed is requested, and
\* when the run has ended every listed article's has been.
C6_ArticleIdsDeduplicated ==
    /\ [](/\ NoDuplicates(fetched)
          /\ Range(fetched) \subseteq listed
          /\ pc \in {"done", "aborted"} => Range(fetched) = listed)
    /\ [][(pc = "scan" /\ pc' = "scan_sleep" /\ matched' # None) =>
              /\ BagToSet(all_article_ids' (-) all_article_ids) = matched'.ids
              /\ BagCardinality(all_article_ids' (-) all_article_ids) = Cardinality(matched'.ids)
              /\ BagCardinality(all_article_ids') = BagCardinality(all_article_ids) + Cardinality(matched'.ids)]_vars

\* C6, its case: two articles were listed, one of them more than once; the
\* download of the first one's attachment ran into the timeout, and the run
\* ended with the detail page of the other never requested
C6_RepeatedIdRunCutShort ==
    /\ pc = "aborted"
    /\ dl.raised
    /\ repeated
    /\ listed = {<<"7">>, <<"1", "0">>}
    /\ fetched = << <<"1", "0">> >>

\* the places of the tokens of the markup that match the pattern of get_file_info
DownloadMatches == {j \in DOMAIN html : MatchesDownload(html[j])}

TripleAt(j) == <<html[j].args[1].s, html[j].args[2].s, html[j].args[3].s>>

TripleOf(f) == <<f.atchFileNo, f.fileOrd, f.ext>>

\* the place of the first match of the triple of f
FirstMatch(f) ==
    CHOOSE j \in DownloadMatches :
        /\ TripleAt(j) = TripleOf(f)
        /\ \A m \in DownloadMatches : TripleAt(m) = TripleOf(f) => j <= m

\* C7: get_file_info returns every matched triple once, in the order of the
\* first matches, and nothing else.
C7_FileInfoDeduplicated ==
    "get_file_info" \in xpc =>
        /\ NoDuplicates(out_files)
        /\ {TripleOf(out_files[a]) : a \in DOMAIN out_files} = {TripleAt(j) : j \in DownloadMatches}
        /\ \A a, b \in DOMAIN out_files : a < b => FirstMatch(out_files[a]) < FirstMatch(out_files[b])
        /\ DownloadMatches = {} => out_files = <<>>

\* C7, its case: a triple matched twice, another between, two descriptors returned
C7_RepeatedTriple ==
    /\ "get_file_info" \in xpc
    /\ DownloadMatches = {1, 2, 3}
    /\ html[1] = html[3]
    /\ html[1] # html[2]
    /\ Len(out_files) = 2

\* C8: the tally has the three keys hwp, hwpx and odt, no counter ever goes
\* down, each counts the downloads that left their file plus the skips of files
\* already there, and a failed download changes none.
C8_TallyAccounting ==
    /\ [](downloaded # None =>
              /\ DOMAIN downloaded = {S_hwp, S_hwpx, S_odt}
              /\ \A e \in DOMAIN downloaded : downloaded[e] = succeeded[e] + skipped[e])
    /\ [][/\ (downloaded # None /\ pc' # "scan") =>
                 \A e \in DOMAIN downloaded : downloaded'[e] >= downloaded[e]
          /\ (dl = None /\ dl' # None /\ (dl'.raised \/ dl'.ret = 0)) =>
                 downloaded' = downloaded]_vars

\* C8, its case: at the summary, one hwp downloaded and one found in place
C8_DownloadedAndSkipped ==
    /\ pc = "done"
    /\ succeeded[S_hwp] = 1
    /\ skipped[S_hwp] = 1
    /\ downloaded[S_hwp] = 2

\* C9: no two requests are sent without a sleep between them.
C9_AlwaysThrottled == Len(pending) <= 1

\* C9 as amended: a sleep follows every request before the next one, but for
\* the first download of an article, sent right after that article's detail
\* page was requested; the sleep after a download is half the delay, every
\* other sleep is the whole delay.
C9_ThrottledButFirstDownload ==
    /\ [](/\ Len(pending) <= 2
          /\ Len(pending) = 2 =>
                /\ pending[1] = [method |-> "GET", url |-> VIEW_URL(Last(fetched))]
                /\ IsPost(pending[2])
                /\ \E e \in AcceptedExts : pending[2].out = OutPath(OutDir, Last(fetched), e))
    /\ [][(pending # <<>> /\ pending' = <<>> /\ run' = run) =>
              last_sleep' = IF IsPost(Last(pending)) THEN 500 ELSE 1000]_vars
    /\ [][(run' = run /\ pc = "sleep_download") =>
              pending' = <<>> /\ last_sleep' = 500]_vars
    /\ [][(run' = run /\ pc \in {"scan_sleep", "sleep_error", "sleep_nofiles", "sleep_article"}) =>
              pending' = <<>> /\ last_sleep' = 1000]_vars

\* C9, its case: a detail page requested and a download sent, no sleep between
C9_DetailThenDownload ==
    /\ Len(pending) = 2
    /\ pc = "sleep_download"

\* C10: a file that was in the output directory when the run started stays
\* as it was, and curl_download is only called on a path where no file was.
C10_ExistingFilesUntouched ==
    /\ \A p \in DOMAIN fs0 : p \in DOMAIN fs /\ fs[p] = fs0[p]
    /\ dl # None => dl.had = NoFile

\* C10, its case: a 50-byte file that was there is offered again and skipped
C10_SmallFileSkipped ==
    /\ pc = "done"
    /\ \E p \in DOMAIN fs0 : fs0[p] = 50 /\ fs[p] = 50
    /\ skipped[S_hwp] = 1

\* C4: a transport failure at the listing fetch, the detail fetch or a
\* download never aborts the run.
C4_FailureIsolation == pc # "aborted"

\* C4, where it goes wrong: a download ran into its timeout
C4_DownloadTimedOut == pc = "aborted" /\ dl.raised

====
